---- MODULE Spec2Model ----
(***************************************************************************)
(* Internal-link resolution of obsidian-next: the alias index built by     *)
(* getTitleToSlugMap and the tree rewriter returned by remarkInternalLinks *)
(* (src/src/lib/markdown.ts).                                              *)
(*                                                                         *)
(* A JavaScript string is a sequence of one-character strings; offsets     *)
(* into a string are 0-based as in the source.                             *)
(***************************************************************************)
EXTENDS Integers, Sequences, FiniteSets, TLC

VARIABLES disk, pc, files, fileIdx, titleToSlug, builds, tree, orig, cursor, last,
          page, docs, storage, clock, tracker, evicted, moved, got, tabs

\* the state of the reading history: local storage, the time, the tracker,
\* what the last addToHistory cut off and what it filtered out, the last call
\* of getHistory, and the addToHistory calls of the browser tabs
historyVars == <<storage, clock, tracker, evicted, moved, got, tabs>>

\* the state of link resolution
linkVars == <<disk, pc, files, fileIdx, titleToSlug, builds, tree, orig, cursor, last,
              page, docs>>

vars == <<linkVars, historyVars>>

(***************************************************************************)
(* Bounds of the model.                                                    *)
(***************************************************************************)
MaxFiles == 2
MaxSegs == 3
MaxBuilds == 2
MaxDocs == 2
MaxClock == 1
MaxStored == 2

(***************************************************************************)
(* Strings.                                                                *)
(***************************************************************************)
UpperLetters == <<"A", "B", "C", "D", "E", "F", "G", "H", "I", "J", "K", "L", "M",
                  "N", "O", "P", "Q", "R", "S", "T", "U", "V", "W", "X", "Y", "Z">>
LowerLetters == <<"a", "b", "c", "d", "e", "f", "g", "h", "i", "j", "k", "l", "m",
                  "n", "o", "p", "q", "r", "s", "t", "u", "v", "w", "x", "y", "z">>

ToLowerChar(c) ==
    IF \E i \in DOMAIN UpperLetters : UpperLetters[i] = c
    THEN LowerLetters[CHOOSE i \in DOMAIN UpperLetters : UpperLetters[i] = c]
    ELSE c

\* String.prototype.toLowerCase
ToLowerCase(s) == [i \in DOMAIN s |-> ToLowerChar(s[i])]

\* String.prototype.slice(from, to) with 0 <= from <= to <= length
Slice(s, from, to) == SubSeq(s, from + 1, to)

\* true iff pat occurs in s at 0-based offset p
OccursAt(s, pat, p) ==
    /\ p >= 0
    /\ p + Len(pat) <= Len(s)
    /\ \A k \in 1..Len(pat) : s[p + k] = pat[k]

\* String.prototype.indexOf(pat): first offset of pat in s, -1 when absent
IndexOf(s, pat) ==
    IF \E p \in 0..Len(s) : OccursAt(s, pat, p)
    THEN CHOOSE p \in 0..Len(s) :
            /\ OccursAt(s, pat, p)
            /\ \A q \in 0..(p - 1) : ~OccursAt(s, pat, q)
    ELSE -1

\* String.prototype.replace(pat, rep) with a string pattern: the FIRST
\* occurrence only is replaced
Replace(s, pat, rep) ==
    LET p == IndexOf(s, pat)
    IN  IF p = -1 THEN s
        ELSE Slice(s, 0, p) \o rep \o Slice(s, p + Len(pat), Len(s))

\* String.prototype.endsWith
EndsWith(s, suf) == Len(s) >= Len(suf) /\ OccursAt(s, suf, Len(s) - Len(suf))

\* s.split('/').pop(): what follows the last '/' (all of s when there is none)
SplitPop(s) ==
    LET slashes == {p \in 1..Len(s) : s[p] = "/"}
    IN  IF slashes = {} THEN s
        ELSE LET m == CHOOSE p \in slashes : \A q \in slashes : q <= p
             IN  SubSeq(s, m + 1, Len(s))

\* the concatenation of a sequence of strings
RECURSIVE Concat(_)
Concat(ss) == IF ss = <<>> THEN <<>> ELSE Head(ss) \o Concat(Tail(ss))

DotMd == <<".", "m", "d">>
Slash == <<"/">>
Dash == <<"-">>

(***************************************************************************)
(* Corpus loader: getAllMarkdownFiles.  A file on disk is its relative     *)
(* path and the title of its front matter ("" when it has none).           *)
(***************************************************************************)
\* directory part of a relative path ('' for a file of the content root)
DirOf(p) ==
    LET slashes == {i \in 1..Len(p) : p[i] = "/"}
    IN  IF slashes = {} THEN <<>>
        ELSE SubSeq(p, 1, (CHOOSE i \in slashes : \A j \in slashes : j <= i) - 1)

SlugOfPath(p) == Replace(Replace(p, DotMd, <<>>), Slash, Dash)

NoteDataOf(f) ==
    LET slug == SlugOfPath(f.path)
    IN  [slug |-> slug,
         path |-> f.path,
         category |-> IF DirOf(f.path) # <<>> THEN DirOf(f.path) ELSE <<"general">>,
         title |-> IF f.title # <<>> THEN f.title ELSE slug]

\* files.push for every item that ends with '.md', in scan order
RECURSIVE ScanFrom(_, _)
ScanFrom(d, i) ==
    IF i > Len(d) THEN <<>>
    ELSE (IF EndsWith(d[i].path, DotMd) THEN <<NoteDataOf(d[i])>> ELSE <<>>)
         \o ScanFrom(d, i + 1)

GetAllMarkdownFiles(d) == ScanFrom(d, 1)

(***************************************************************************)
(* The alias index: a plain JavaScript object used as a map.               *)
(***************************************************************************)
UnderProto == <<"_", "_", "p", "r", "o", "t", "o", "_", "_">>
Constructor == <<"c", "o", "n", "s", "t", "r", "u", "c", "t", "o", "r">>
\* what a template literal makes of Object and of Object.prototype
ObjectFunctionString == <<"function Object() { [native code] }">>
ObjectObjectString == <<"[object Object]">>

EmptyObject == [k \in {} |-> <<>>]

\* obj[key] = value; assigning a string to __proto__ is ignored by the setter
\* inherited from Object.prototype
SetProperty(obj, key, value) ==
    IF key = UnderProto THEN obj
    ELSE [k \in (DOMAIN obj) \cup {key} |-> IF k = key THEN value ELSE obj[k]]

Undefined == [defined |-> FALSE, str |-> <<>>]
Defined(s) == [defined |-> TRUE, str |-> s]

\* obj[key]: own properties first, then the properties of Object.prototype
\* whose names a lower-cased key can spell
GetProperty(obj, key) ==
    IF key \in DOMAIN obj THEN Defined(obj[key])
    ELSE IF key = Constructor THEN Defined(ObjectFunctionString)
    ELSE IF key = UnderProto THEN Defined(ObjectObjectString)
    ELSE Undefined

\* JavaScript truthiness of a string-or-undefined value
Truthy(v) == v.defined /\ v.str # <<>>

\* NewTitleToSlug with the map kept in a variable that outlives the call
KeepTitleToSlug(earlier) == earlier

\* line 106: const titleToSlug = {}, whatever an earlier call built
NewTitleToSlug(earlier) == EmptyObject

\* the body of files.forEach in getTitleToSlugMap
RegisterFile(map, file) ==
    LET m1 == SetProperty(map, ToLowerCase(file.title), file.slug)
        m2 == SetProperty(m1, file.slug, file.slug)
        originalPath == Replace(file.path, DotMd, <<>>)
        m3 == SetProperty(m2, ToLowerCase(originalPath), file.slug)
        filename == Replace(SplitPop(file.path), DotMd, <<>>)
    IN  IF filename # <<>>
        THEN SetProperty(m3, ToLowerCase(filename), file.slug)
        ELSE m3

\* getSlugToFileMap: slugToFile[slug] = itemRelativePath for every item that
\* ends with '.md', in scan order
RECURSIVE SlugScanFrom(_, _, _)
SlugScanFrom(d, i, slugToFile) ==
    IF i > Len(d) THEN slugToFile
    ELSE SlugScanFrom(d, i + 1,
                      IF EndsWith(d[i].path, DotMd)
                      THEN SetProperty(slugToFile, SlugOfPath(d[i].path), d[i].path)
                      ELSE slugToFile)

GetSlugToFileMap(d) == SlugScanFrom(d, 1, EmptyObject)

(***************************************************************************)
(* Document trees (mdast).  Every node is a record of one shape; a node    *)
(* made by the parser carries a position (1), a node made by the rewriter  *)
(* carries none (0).                                                       *)
(***************************************************************************)
NoData == [hName |-> "", className |-> ""]
BrokenLinkData == [hName |-> "span", className |-> "text-red-500 font-mono"]

MkNode(type, value, url, children, data, position) ==
    [type |-> type, value |-> value, url |-> url, children |-> children,
     data |-> data, position |-> position]

\* { type: 'text', value }
NewText(value) == MkNode("text", value, <<>>, <<>>, NoData, 0)

\* { type: 'link', url: `/${slug}`, children: [{ type: 'text', value: linkText }] }
NewLink(slug, linkText) ==
    MkNode("link", <<>>, <<"/">> \o slug, <<NewText(linkText)>>, NoData, 0)

\* NewMarker that keeps the brackets in the value
NewMarkerBracketed(linkText) ==
    MkNode("text", <<"[", "[">> \o linkText \o <<"]", "]">>, <<>>, <<>>,
           BrokenLinkData, 0)

\* { type: 'text', value: linkText, data: { hName: 'span', hProperties: ... } }
NewMarker(linkText) == MkNode("text", linkText, <<>>, <<>>, BrokenLinkData, 0)

\* nodes as the markdown parser makes them
ParsedText(value) == MkNode("text", value, <<>>, <<>>, NoData, 1)
ParsedCode(value) == MkNode("inlineCode", value, <<>>, <<>>, NoData, 1)
ParsedParent(type, children) == MkNode(type, <<>>, <<>>, children, NoData, 1)

(***************************************************************************)
(* The regular expression /\[\[([^\]]+)\]\]/g.                             *)
(***************************************************************************)
OpenBrackets == <<"[", "[">>
CloseBrackets == <<"]", "]">>

\* SpanEnds with the span allowed to be empty, as /\[\[([^\]]*)\]\]/ would
SpanEndsEmptySpan(text, p) ==
    {e \in (p + 2)..Len(text) :
        /\ OccursAt(text, OpenBrackets, p)
        /\ \A k \in (p + 2)..(e - 1) : text[k + 1] # "]"
        /\ OccursAt(text, CloseBrackets, e)}

\* offsets e at which the closing ]] of a match that starts at p can stand:
\* [[ at p, then one or more characters other than ], then ]] at e
SpanEnds(text, p) ==
    {e \in (p + 3)..Len(text) :
        /\ OccursAt(text, OpenBrackets, p)
        /\ \A k \in (p + 2)..(e - 1) : text[k + 1] # "]"
        /\ OccursAt(text, CloseBrackets, e)}

NoMatch == [found |-> FALSE, index |-> -1, fullMatch |-> <<>>, linkText |-> <<>>,
            lastIndex |-> 0]

\* linkRegex.exec(text) with linkRegex.lastIndex = lastIndex: the leftmost
\* match at or after lastIndex, the greedy span first; a failed exec resets
\* lastIndex to 0
RegexExec(text, lastIndex) ==
    LET starts == {p \in lastIndex..Len(text) : SpanEnds(text, p) # {}}
    IN  IF lastIndex > Len(text) \/ starts = {} THEN NoMatch
        ELSE LET p == CHOOSE q \in starts : \A r \in starts : q <= r
                 e == CHOOSE x \in SpanEnds(text, p) : \A y \in SpanEnds(text, p) : y <= x
             IN  [found |-> TRUE, index |-> p,
                  fullMatch |-> Slice(text, p, e + 2),
                  linkText |-> Slice(text, p + 2, e),
                  lastIndex |-> e + 2]

\* linkRegex.test(text) on the fresh regex of line 134
RegexTest(text) == RegexExec(text, 0)

\* ResetLastIndex without the assignment of line 145: the loop starts
\* where the test of line 136 left the regex
KeepLastIndex(afterTest) == afterTest

\* line 145: linkRegex.lastIndex = 0
ResetLastIndex(afterTest) == 0

(***************************************************************************)
(* The visitor of remarkInternalLinks, lines 133-196.                      *)
(***************************************************************************)
\* PushBefore without the guard startIndex > lastIndex
PushBeforeUnguarded(newNodes, text, lastIndex, startIndex) ==
    Append(newNodes, NewText(Slice(text, lastIndex, startIndex)))

\* lines 151-157: the text before the link
PushBefore(newNodes, text, lastIndex, startIndex) ==
    IF startIndex > lastIndex
    THEN Append(newNodes, NewText(Slice(text, lastIndex, startIndex)))
    ELSE newNodes

\* line 160: the key under which the link text is looked up
LookupKey(linkText) == ToLowerCase(linkText)

\* lines 160-182: the node that replaces one match
ReplacementNode(map, linkText) ==
    LET slug == GetProperty(map, LookupKey(linkText))
    IN  IF Truthy(slug) THEN NewLink(slug.str, linkText) ELSE NewMarker(linkText)

\* PushRemaining that forgets the text after the last match
DropRemaining(newNodes, text, lastIndex) == newNodes

\* lines 187-193: the remaining text
PushRemaining(newNodes, text, lastIndex) ==
    IF lastIndex < Len(text)
    THEN Append(newNodes, NewText(Slice(text, lastIndex, Len(text))))
    ELSE newNodes

\* lines 147-193: the while loop over linkRegex.exec and the remaining text
RECURSIVE ExecLoop(_, _, _, _, _)
ExecLoop(map, text, regexLastIndex, lastIndex, newNodes) ==
    LET match == RegexExec(text, regexLastIndex)
    IN  IF ~match.found THEN PushRemaining(newNodes, text, lastIndex)
        ELSE LET startIndex == match.index
                 before == PushBefore(newNodes, text, lastIndex, startIndex)
                 pushed == Append(before, ReplacementNode(map, match.linkText))
             IN  ExecLoop(map, text, match.lastIndex,
                          startIndex + Len(match.fullMatch), pushed)

\* lines 140-193: the nodes that replace a text node with value text
NewNodesFor(map, text) ==
    ExecLoop(map, text, ResetLastIndex(RegexTest(text).lastIndex), 0, <<>>)

\* TestPasses without the early return of line 136
TestAlwaysPasses(text) == TRUE

\* line 136: the visitor goes on only when the test finds a match
TestPasses(text) == RegexTest(text).found

\* IndexAfterLookup of a visitor that records every missing key in the index
IndexAfterLookupCaching(map, key) ==
    IF key \in DOMAIN map THEN map ELSE SetProperty(map, key, key)

\* line 160: titleToSlug[key] is a property read, the object stays as it is
IndexAfterLookup(map, key) == map

\* lines 147-185: the index after the lookups of the while loop
RECURSIVE IndexAfterLoop(_, _, _)
IndexAfterLoop(map, text, regexLastIndex) ==
    LET match == RegexExec(text, regexLastIndex)
    IN  IF ~match.found THEN map
        ELSE IndexAfterLoop(IndexAfterLookup(map, LookupKey(match.linkText)),
                            text, match.lastIndex)

\* lines 132-197: the index after the visitor ran on a text node
IndexAfterVisit(map, text, hasParent) ==
    IF TestPasses(text) /\ hasParent
    THEN IndexAfterLoop(map, text, ResetLastIndex(RegexTest(text).lastIndex))
    ELSE map

(***************************************************************************)
(* Traversal: visit(tree, 'text', visitor) of unist-util-visit, pre-order  *)
(* and depth-first over the live child lists.  A path is the sequence of   *)
(* 0-based child indices that leads from the root to a node.               *)
(***************************************************************************)
RECURSIVE NodeAt(_, _)
NodeAt(node, path) ==
    IF path = <<>> THEN node
    ELSE NodeAt(node.children[Head(path) + 1], Tail(path))

ParentPath(path) == SubSeq(path, 1, Len(path) - 1)
IndexOfPath(path) == path[Len(path)]

\* Splice that loses the children after the replaced one
SpliceTruncating(children, index, newNodes) == SubSeq(children, 1, index) \o newNodes

\* children.splice(index, 1, ...newNodes)
Splice(children, index, newNodes) ==
    SubSeq(children, 1, index) \o newNodes \o SubSeq(children, index + 2, Len(children))

\* parent.children.splice(index, 1, ...newNodes) for the node at path
RECURSIVE SpliceAt(_, _, _)
SpliceAt(node, path, newNodes) ==
    IF Len(path) = 1
    THEN [node EXCEPT !.children = Splice(@, path[1], newNodes)]
    ELSE [node EXCEPT !.children[Head(path) + 1] = SpliceAt(@, Tail(path), newNodes)]

Finished == [done |-> TRUE, path |-> <<>>]

\* NextSiblingIndex of a traversal that steps over the node that follows
NextSiblingIndexSkipping(index) == index + 2

\* the index at which the traversal of a child list goes on after the child
\* at index (the visitor returns nothing: no index to continue from)
NextSiblingIndex(index) == index + 1

\* the node visited after the one at path, once that node's subtree is done:
\* the next index of the parent's live child list, else the parent's successor
RECURSIVE Advance(_, _)
Advance(t, path) ==
    IF path = <<>> THEN Finished
    ELSE IF NextSiblingIndex(IndexOfPath(path)) < Len(NodeAt(t, ParentPath(path)).children)
         THEN [done |-> FALSE,
               path |-> ParentPath(path) \o <<NextSiblingIndex(IndexOfPath(path))>>]
         ELSE Advance(t, ParentPath(path))

\* the node the traversal goes to from a node that is no text node
AfterDescend(t, path) ==
    IF NodeAt(t, path).children # <<>>
    THEN [done |-> FALSE, path |-> path \o <<0>>]
    ELSE Advance(t, path)

\* line 138: the visitor needs a parent with children and an index
HasParent(path) == path # <<>>

\* lines 132-197: the tree after the visitor ran on the text node at path
VisitorResult(map, t, path) ==
    LET text == NodeAt(t, path).value
    IN  IF ~TestPasses(text) THEN t
        ELSE IF ~HasParent(path) THEN t
        ELSE SpliceAt(t, path, NewNodesFor(map, text))

(***************************************************************************)
(* The note page: src/src/app/[slug]/page.tsx, lines 34-43.                *)
(***************************************************************************)
\* the route of src/app/[slug]/page.tsx: the slug parameter of a path, which
\* the dynamic segment takes from a path of exactly one segment
RouteParam(url) ==
    IF /\ Len(url) >= 2
       /\ url[1] = "/"
       /\ \A i \in 2..Len(url) : url[i] # "/"
    THEN Defined(SubSeq(url, 2, Len(url)))
    ELSE Undefined

\* NotePage, page.tsx lines 21-31: what a request for the path renders: no
\* page of this route, 'Note not found', the note of a file, or an error of
\* readMarkdownFile on a value that is no path
NotePage(d, url) ==
    LET slug == RouteParam(url)
        slugToFile == GetSlugToFileMap(d)
    IN  IF ~slug.defined THEN "no page"
        ELSE IF ~Truthy(GetProperty(slugToFile, slug.str)) THEN "Note not found"
        ELSE IF slug.str \in DOMAIN slugToFile THEN "note"
        ELSE "error"

SpanOpen == <<"<span class=\"text-red-500 font-mono\">">>
SpanClose == <<"</span>">>

\* lines 37-42: what the replacer function returns for one match
PageReplacement(map, linkText) ==
    LET slug == GetProperty(map, ToLowerCase(linkText))
    IN  IF Truthy(slug)
        THEN <<"[">> \o linkText \o <<"]", "(", "/">> \o slug.str \o <<")">>
        ELSE SpanOpen \o linkText \o SpanClose

\* line 36: content.replace(/\[\[([^\]]+)\]\]/g, replacer), the content from
\* offset from on, the matches searched from offset from
RECURSIVE ReplaceAllFrom(_, _, _)
ReplaceAllFrom(map, content, from) ==
    LET match == RegexExec(content, from)
    IN  IF ~match.found THEN Slice(content, from, Len(content))
        ELSE Slice(content, from, match.index)
             \o PageReplacement(map, match.linkText)
             \o ReplaceAllFrom(map, content, match.lastIndex)

ProcessedContent(map, content) == ReplaceAllFrom(map, content, 0)

\* lines 37-42: the decision of the replacer function for one match: the
\* text it shows, whether the lookup hit, and the address it links to
PageDecision(map, linkText) ==
    LET slug == GetProperty(map, ToLowerCase(linkText))
    IN  IF Truthy(slug)
        THEN [display |-> linkText, hit |-> TRUE, target |-> <<"/">> \o slug.str]
        ELSE [display |-> linkText, hit |-> FALSE, target |-> <<>>]

\* line 36: the decisions of the replacer for the matches of the content
\* from offset from on, in order
RECURSIVE PageDecisionsFrom(_, _, _)
PageDecisionsFrom(map, content, from) ==
    LET match == RegexExec(content, from)
    IN  IF ~match.found THEN <<>>
        ELSE <<PageDecision(map, match.linkText)>>
             \o PageDecisionsFrom(map, content, match.lastIndex)

PageDecisions(map, content) == PageDecisionsFrom(map, content, 0)

\* the one character that opens and closes a code span
Backtick == <<"<backtick>">>

\* the markdown source of which the parser makes the tree
RECURSIVE MarkdownOf(_)
MarkdownOf(node) ==
    LET inner == Concat([i \in DOMAIN node.children |-> MarkdownOf(node.children[i])])
    IN  CASE node.type = "text" -> node.value
          [] node.type = "inlineCode" -> Backtick \o node.value \o Backtick
          [] node.type = "emphasis" -> <<"*">> \o inner \o <<"*">>
          [] node.type = "paragraph" -> inner \o <<"\n", "\n">>
          [] OTHER -> inner

(***************************************************************************)
(* The reading history: src/src/lib/reading-history.ts and the hook        *)
(* src/src/hooks/useReadingHistory.ts.  The storage is the entry of        *)
(* localStorage under STORAGE_KEY: absent, or a text.                      *)
(***************************************************************************)
MAX_HISTORY_SIZE == 5

\* localStorage without an entry under STORAGE_KEY: getItem returns null
EmptyStorage == [present |-> FALSE, text |-> [parses |-> FALSE, value |-> <<>>]]

\* JSON.stringify(newHistory): a text that parses to an equal array
JsonStringify(history) == [parses |-> TRUE, value |-> history]

\* JSON.parse(stored): the value, or a SyntaxError
JsonParse(text) ==
    IF text.parses THEN [threw |-> FALSE, value |-> text.value]
    ELSE [threw |-> TRUE, value |-> <<>>]

\* localStorage.setItem(STORAGE_KEY, text)
SetItem(text) == [present |-> TRUE, text |-> text]

\* a stored text that is no JSON
Unparseable == [parses |-> FALSE, value |-> <<>>]

\* lines 29-30, the try block: getItem, then stored ? JSON.parse(stored) : []
TryBlock(st) ==
    IF ~st.present THEN [threw |-> FALSE, value |-> <<>>] ELSE JsonParse(st.text)

\* Catch that lets the error pass
Rethrow(outcome) == outcome

\* lines 31-34, the catch block: console.error and return []
Catch(outcome) ==
    IF outcome.threw THEN [threw |-> FALSE, value |-> <<>>] ELSE outcome

\* getHistory, lines 25-35: what the call returns, or that it throws
GetHistoryCall(st, hasWindow) ==
    IF ~hasWindow THEN [threw |-> FALSE, value |-> <<>>]
    ELSE Catch(TryBlock(st))

\* getHistory, lines 25-35: the value returned
GetHistory(st, hasWindow) == GetHistoryCall(st, hasWindow).value

\* line 18: { slug, title, visitedAt: Date.now() }
HistoryItem(slug, title, now) == [slug |-> slug, title |-> title, visitedAt |-> now]

\* WithNewItem that puts the new item behind the others
WithNewItemLast(item, filteredHistory) == Append(filteredHistory, item)

\* lines 17-19: [item, ...filteredHistory]
WithNewItem(item, filteredHistory) == <<item>> \o filteredHistory

\* KeepNewest without the slice
KeepEverything(history) == history

\* line 20: .slice(0, MAX_HISTORY_SIZE)
KeepNewest(history) ==
    SubSeq(history, 1, IF Len(history) < MAX_HISTORY_SIZE THEN Len(history)
                       ELSE MAX_HISTORY_SIZE)

\* WithoutSlug that also drops every entry behind the one with the slug
WithoutSlugAndOlder(history, slug) ==
    IF \E k \in DOMAIN history : history[k].slug = slug
    THEN SubSeq(history, 1,
                (CHOOSE k \in DOMAIN history : history[k].slug = slug) - 1)
    ELSE history

\* WithoutSlug that filters nothing out
WithoutNothing(history, slug) == history

\* line 14: history.filter(item => item.slug !== slug)
WithoutSlug(history, slug) == SelectSeq(history, LAMBDA item : item.slug # slug)

\* line 14: the entries that the filter leaves out
FilteredOut(st, slug) ==
    SelectSeq(GetHistory(st, TRUE), LAMBDA item : item.slug = slug)

\* addToHistory, lines 10-23: the storage after the call
AddToHistoryUtil(st, slug, title, now) ==
    LET history == GetHistory(st, TRUE)
        filteredHistory == WithoutSlug(history, slug)
        newHistory == KeepNewest(WithNewItem(HistoryItem(slug, title, now),
                                             filteredHistory))
    IN  SetItem(JsonStringify(newHistory))

\* line 20: the items that slice(0, MAX_HISTORY_SIZE) leaves out
CutOff(st, slug, title, now) ==
    LET history == GetHistory(st, TRUE)
        filteredHistory == WithoutSlug(history, slug)
        full == WithNewItem(HistoryItem(slug, title, now), filteredHistory)
    IN  SubSeq(full, Len(KeepNewest(full)) + 1, Len(full))

\* clearHistory, lines 37-39: localStorage.removeItem(STORAGE_KEY)
ClearHistoryUtil(st) == EmptyStorage

(***************************************************************************)
(* Inputs: the files of the content directory and the document trees.      *)
(***************************************************************************)
File(path, title) == [path |-> path, title |-> title]

DiskFiles ==
    { File(<<"a", ".", "m", "d">>, <<>>),
      File(<<"d", "/", "a", ".", "m", "d">>, <<"A">>),
      File(<<"D", "/", "b", ".", "m", "d">>, <<"T">>),
      File(<<"a", "-", "b", ".", "m", "d">>, <<>>),
      File(<<"a", "/", "b", ".", "m", "d">>, <<>>),
      File(<<"d", "/", "e", "/", "c", ".", "m", "d">>, <<"c">>),
      File(<<"d", "-", "b", ".", "m", "d">>, <<>>),
      File(<<"r", ".", "t", "x", "t">>, <<>>) }

\* the directories a relative path lies in, from the outermost to its own
DirsOf(p) == {SubSeq(p, 1, n - 1) : n \in {i \in 1..Len(p) : p[i] = "/"}}

\* scanDirectory lists a directory together with all that is below it: two
\* files of one sub-directory are not separated by a file from outside it
ScanOrdered(d) ==
    \A i, j, k \in DOMAIN d :
        (i < j /\ j < k) =>
            \A dir \in DirsOf(d[i].path) \cap DirsOf(d[k].path) :
                dir \in DirsOf(d[j].path)

Corpora ==
    {d \in UNION {[1..n -> DiskFiles] : n \in 0..MaxFiles} :
        /\ \A i, j \in DOMAIN d : i # j => d[i].path # d[j].path
        /\ ScanOrdered(d)}

\* files whose front matter gives them titles of several shapes: two titles
\* that differ in case only, a title with brackets, the title __proto__, and
\* a file without title
TitledFiles ==
    { File(<<"a", ".", "m", "d">>, <<"A">>),
      File(<<"b", ".", "m", "d">>, <<"a">>),
      File(<<"n", ".", "m", "d">>, <<"N", " ", "[", "x", "]">>),
      File(<<"p", ".", "m", "d">>, UnderProto),
      File(<<"d", "/", "a", ".", "m", "d">>, <<>>) }

TitledCorpora ==
    {d \in UNION {[1..n -> TitledFiles] : n \in 0..MaxFiles} :
        /\ \A i, j \in DOMAIN d : i # j => d[i].path # d[j].path
        /\ ScanOrdered(d)}

Segments ==
    { <<"a">>,
      <<"[", "[">>,
      <<"]", "]">>,
      <<"[", "[", "a", "]">>,
      <<"[", "[", "A", "]", "]">>,
      <<"[", "[", " ", "a", " ", "]", "]">>,
      <<"[", "[", "b", "]", "]">>,
      <<"[", "[", "c", "o", "n", "s", "t", "r", "u", "c", "t", "o", "r", "]", "]">> }

\* the values of text nodes: the parser makes no empty text node
Texts == {Concat(ss) : ss \in UNION {[1..n -> Segments] : n \in 1..MaxSegs}}

Bracketed(s) == OpenBrackets \o s \o CloseBrackets

Root(children) == ParsedParent("root", children)
Paragraph(children) == ParsedParent("paragraph", children)

\* trees with several text nodes, non-text nodes and nested parents
SampleTrees ==
    { Root(<<Paragraph(<<ParsedCode(<<"[", "[", "b", "]", "]">>),
                         ParsedText(<<"S", "e", "e", " ", "[", "[", "A", "]", "]", " ", "a", "n", "d", " ", "[", "[", "d", "-", "a", "]", "]">>),
                         ParsedCode(<<"[", "[", "a", "]", "]">>),
                         ParsedText(<<"x">>)>>)>>),
      Root(<<ParsedText(<<"[", "[", "a", "]", "]", "[", "[", "b", "]", "]">>),
             ParsedParent("emphasis", <<ParsedText(<<"[", "[", " ", "a", " ", "]", "]">>)>>),
             ParsedText(<<"t", "a", "i", "l", " ", "[", "[", "d", "/", "a", "]", "]">>)>>),
      Root(<<Paragraph(<<ParsedText(<<"n", "o", " ", "l", "i", "n", "k", "s">>)>>),
             Paragraph(<<>>)>>),
      ParsedText(<<"[", "[", "a", "]", "]">>),
      Root(<<Paragraph(<<ParsedText(<<"s", "e", "e", " ", "[", "[", "a">>)>>),
             Paragraph(<<ParsedText(<<"b", "]", "]", " ", "[", "[", "A", "]", "]">>)>>)>>) }

\* a tree that links every file of the directory by its slug and by its title
RECURSIVE LinkNodes(_, _)
LinkNodes(fs, i) ==
    IF i > Len(fs) THEN <<>>
    ELSE <<ParsedText(<<"s", "e", "e", " ">> \o Bracketed(fs[i].slug)),
           ParsedText(Bracketed(fs[i].title))>> \o LinkNodes(fs, i + 1)

SelfLinkTree(d) == Root(<<Paragraph(LinkNodes(GetAllMarkdownFiles(d), 1))>>)

\* the trees of the documents of a build that share one plugin instance
DocTrees ==
    { Root(<<ParsedText(<<"[", "[", "a", "]", "]", "[", "[", "b", "]", "]">>),
             ParsedParent("emphasis", <<ParsedText(<<"[", "[", " ", "a", " ", "]", "]">>)>>),
             ParsedText(<<"t", "a", "i", "l", " ", "[", "[", "d", "/", "a", "]", "]">>)>>),
      Root(<<Paragraph(<<ParsedText(<<"[", "[", "b", "]", "]", " ", "[", "[", "A", "]", "]">>),
                         ParsedCode(<<"[", "[", "a", "]", "]">>)>>)>>),
      Root(<<Paragraph(<<ParsedText(<<"n", "o", " ", "l", "i", "n", "k", "s">>)>>)>>) }

DocLists == UNION {[1..n -> DocTrees] : n \in 1..MaxDocs}

\* the note pages a reader can open: slug and title (one note is known
\* under two titles, before and after its front matter was edited)
HistoryPages ==
    { [slug |-> <<"a">>, title |-> <<"A">>],
      [slug |-> <<"a">>, title |-> <<"A", "2">>],
      [slug |-> <<"b">>, title |-> <<"B">>],
      [slug |-> <<"c">>, title |-> <<"C">>],
      [slug |-> <<"d">>, title |-> <<"D">>],
      [slug |-> <<"e">>, title |-> <<"E">>],
      [slug |-> <<"f">>, title |-> <<"F">>] }

FixedCorpus == <<File(<<"d", "/", "a", ".", "m", "d">>, <<"A">>)>>

TextTrees == {Root(<<Paragraph(<<ParsedText(t)>>)>>) : t \in Texts} \cup SampleTrees

(***************************************************************************)
(* The state machine.                                                      *)
(***************************************************************************)
\* no tracker is mounted; a hook starts with useState([]) and useState(true)
Unmounted == [mounted |-> FALSE, slug |-> <<>>, title |-> <<>>, history |-> <<>>,
              isLoading |-> TRUE]

\* no note page has been rendered
NoPage == [rendered |-> FALSE, content |-> <<>>, processedContent |-> <<>>]

\* getHistory has not been called
NoGot == [called |-> FALSE, hasWindow |-> FALSE, seen |-> EmptyStorage,
          threw |-> FALSE, value |-> <<>>]

NoCall == [called |-> FALSE, path |-> <<>>, text |-> <<>>, replaced |-> FALSE,
           newNodes |-> <<>>]

InitWith(d, t) ==
    /\ disk = d
    /\ tree = t
    /\ orig = t
    /\ pc = "idle"
    /\ files = <<>>
    /\ fileIdx = 1
    /\ titleToSlug = EmptyObject
    /\ builds = <<>>
    /\ cursor = <<>>
    /\ last = NoCall
    /\ page = NoPage
    /\ storage = EmptyStorage
    /\ clock = 0
    /\ tracker = Unmounted
    /\ evicted = <<>>
    /\ moved = <<>>
    /\ got = NoGot

\* any corpus, with the tree that links every file of the corpus
Init == \E d \in Corpora : InitWith(d, SelfLinkTree(d)) /\ docs = <<>> /\ tabs = <<>>

\* one corpus, with every text of the bounded set in a paragraph, and the
\* sample trees
InitRewrite == \E t \in TextTrees : InitWith(FixedCorpus, t) /\ docs = <<>> /\ tabs = <<>>

\* a document that the transformer has not been called on yet
NewDoc(t) == [tree |-> t, orig |-> t, cursor |-> <<>>, pc |-> "wait"]

\* one corpus and one plugin instance, with up to MaxDocs documents that the
\* transformer is applied to
InitDocs ==
    \E ts \in DocLists :
        /\ InitWith(FixedCorpus, Root(<<>>))
        /\ docs = [i \in DOMAIN ts |-> NewDoc(ts[i])]
        /\ tabs = <<>>

\* the list without its i-th element
RemoveAt(d, i) == SubSeq(d, 1, i - 1) \o SubSeq(d, i + 1, Len(d))

\* the content directory changes between two builds: a file is deleted
\* (getAllMarkdownFiles reads the directory anew in every build, line 36)
EditDisk ==
    /\ pc = "ready"
    /\ Len(builds) < MaxBuilds
    /\ \E i \in DOMAIN disk : disk' = RemoveAt(disk, i)
    /\ UNCHANGED <<pc, files, fileIdx, titleToSlug, builds, tree, orig, cursor, last, page, docs, historyVars>>

\* remarkInternalLinks() / getTitleToSlugMap() is entered: lines 105-106
StartBuild ==
    /\ pc \in {"idle", "ready"}
    /\ Len(builds) < MaxBuilds
    /\ files' = GetAllMarkdownFiles(disk)
    /\ titleToSlug' = NewTitleToSlug(titleToSlug)
    /\ fileIdx' = 1
    /\ pc' = "build"
    /\ UNCHANGED <<disk, builds, tree, orig, cursor, last, page, docs, historyVars>>

\* one iteration of files.forEach: lines 108-122
RegisterNext ==
    /\ pc = "build"
    /\ fileIdx <= Len(files)
    /\ titleToSlug' = RegisterFile(titleToSlug, files[fileIdx])
    /\ fileIdx' = fileIdx + 1
    /\ UNCHANGED <<disk, pc, files, builds, tree, orig, cursor, last, page, docs, historyVars>>

\* getTitleToSlugMap returns: line 124
FinishBuild ==
    /\ pc = "build"
    /\ fileIdx > Len(files)
    /\ builds' = Append(builds, [input |-> files, map |-> titleToSlug])
    /\ pc' = "ready"
    /\ UNCHANGED <<disk, files, fileIdx, titleToSlug, tree, orig, cursor, last, page, docs, historyVars>>

\* TransformerReady of a plugin that hands out its transformer while the
\* index is still being built
TransformerReadyDuringBuild == pc \in {"build", "ready"}

\* lines 129-131: the transformer exists once getTitleToSlugMap has returned
TransformerReady == pc = "ready"

\* the transformer is called on the tree: lines 131-132
StartTransform ==
    /\ TransformerReady
    /\ cursor' = <<>>
    /\ pc' = "visit"
    /\ UNCHANGED <<disk, files, fileIdx, titleToSlug, builds, tree, orig, last, page, docs, historyVars>>

MoveTo(next) ==
    /\ cursor' = next.path
    /\ pc' = IF next.done THEN "done" ELSE "visit"

\* the visitor is called on the next text node: lines 132-197
VisitText ==
    /\ pc = "visit"
    /\ NodeAt(tree, cursor).type = "text"
    /\ LET text == NodeAt(tree, cursor).value
           after == VisitorResult(titleToSlug, tree, cursor)
           replaced == TestPasses(text) /\ HasParent(cursor)
       IN  /\ tree' = after
           /\ last' = [called |-> TRUE, path |-> cursor, text |-> text,
                       replaced |-> replaced,
                       newNodes |-> IF replaced THEN NewNodesFor(titleToSlug, text)
                                    ELSE <<>>]
           /\ titleToSlug' = IndexAfterVisit(titleToSlug, text, HasParent(cursor))
           /\ MoveTo(Advance(after, cursor))
    /\ UNCHANGED <<disk, files, fileIdx, builds, orig, page, docs, historyVars>>

\* the note page substitutes the links of its content: page.tsx, lines 35-43
\* (getTitleToSlugMap of line 35 has returned)
ReplaceContent ==
    /\ pc = "ready"
    /\ page' = [rendered |-> TRUE, content |-> MarkdownOf(orig),
                processedContent |-> ProcessedContent(titleToSlug, MarkdownOf(orig))]
    /\ pc' = "page"
    /\ UNCHANGED <<disk, files, fileIdx, titleToSlug, builds, tree, orig, cursor, last, docs, historyVars>>

\* the traversal passes a node that is no text node and enters its children
Descend ==
    /\ pc = "visit"
    /\ NodeAt(tree, cursor).type # "text"
    /\ MoveTo(AfterDescend(tree, cursor))
    /\ UNCHANGED <<disk, files, fileIdx, titleToSlug, builds, tree, orig, last, page, docs, historyVars>>

\* the document after the traversal moved on
DocMovedTo(doc, t, next) ==
    [tree |-> t, orig |-> doc.orig, cursor |-> next.path,
     pc |-> IF next.done THEN "done" ELSE "visit"]

\* the transformer of the plugin instance is called on document i
DocStart(i) ==
    /\ TransformerReady \/ pc = "docs"
    /\ docs[i].pc = "wait"
    /\ docs' = [docs EXCEPT ![i].pc = "visit", ![i].cursor = <<>>]
    /\ pc' = "docs"
    /\ UNCHANGED <<disk, files, fileIdx, titleToSlug, builds, tree, orig, cursor, last,
                   page,
                   historyVars>>

\* the traversal of document i goes on whenever it is under way: the
\* transformer is synchronous and awaits nothing (lines 131-197)
DocMayStep(i) == docs[i].pc = "visit"

\* the visitor is called on the next text node of document i
DocVisitText(i) ==
    /\ DocMayStep(i)
    /\ NodeAt(docs[i].tree, docs[i].cursor).type = "text"
    /\ LET text == NodeAt(docs[i].tree, docs[i].cursor).value
           after == VisitorResult(titleToSlug, docs[i].tree, docs[i].cursor)
       IN  /\ docs' = [docs EXCEPT
                          ![i] = DocMovedTo(@, after, Advance(after, docs[i].cursor))]
           /\ titleToSlug' = IndexAfterVisit(titleToSlug, text, HasParent(docs[i].cursor))
    /\ UNCHANGED <<disk, pc, files, fileIdx, builds, tree, orig, cursor, last, page, historyVars>>

\* the traversal of document i passes a node that is no text node
DocDescend(i) ==
    /\ DocMayStep(i)
    /\ NodeAt(docs[i].tree, docs[i].cursor).type # "text"
    /\ docs' = [docs EXCEPT
                   ![i] = DocMovedTo(@, @.tree, AfterDescend(@.tree, @.cursor))]
    /\ UNCHANGED <<disk, pc, files, fileIdx, titleToSlug, builds, tree, orig, cursor,
                   last, page,
                   historyVars>>

\* lines 131-197 in one go: the tree after the transformer ran on t from the
\* node at path on
RECURSIVE TransformFrom(_, _, _)
TransformFrom(map, t, path) ==
    LET node == NodeAt(t, path)
    IN  IF node.type = "text"
        THEN LET after == VisitorResult(map, t, path)
                 next == Advance(after, path)
             IN  IF next.done THEN after
                 ELSE TransformFrom(IndexAfterVisit(map, node.value, HasParent(path)),
                                    after, next.path)
        ELSE LET next == AfterDescend(t, path)
             IN  IF next.done THEN t ELSE TransformFrom(map, t, next.path)

Transform(map, t) == TransformFrom(map, t, <<>>)

(***************************************************************************)
(* The ReadingTracker of the note page and its useReadingHistory hook.     *)
(***************************************************************************)
\* Date.now() of a call: the time has stood still or moved on since the last
TimesNow == {t \in {clock, clock + 1} : t <= MaxClock}

\* the effect of ReadingTracker (page.tsx, lines 72-75) calls the hook's
\* addToHistory (useReadingHistory.ts, lines 22-25)
TrackerEffect(p, now) ==
    /\ storage' = AddToHistoryUtil(storage, p.slug, p.title, now)
    /\ clock' = now
    /\ evicted' = CutOff(storage, p.slug, p.title, now)
    /\ moved' = FilteredOut(storage, p.slug)
    /\ tracker' = [mounted |-> TRUE, slug |-> p.slug, title |-> p.title,
                   history |-> GetHistory(storage', TRUE), isLoading |-> FALSE]
    /\ UNCHANGED <<got, tabs, linkVars>>

\* a note page is opened: ReadingTracker mounts, the hook's effect loads the
\* history (lines 16-19), then the tracker's effect runs
MountTracker ==
    /\ ~tracker.mounted
    /\ \E p \in HistoryPages, now \in TimesNow : TrackerEffect(p, now)

\* the reader goes on to another note page: slug or title change and the
\* tracker's effect runs again (dependencies of line 75)
ChangePage ==
    /\ tracker.mounted
    /\ \E p \in HistoryPages, now \in TimesNow :
          /\ <<p.slug, p.title>> # <<tracker.slug, tracker.title>>
          /\ TrackerEffect(p, now)

\* the hook's clearHistory: useReadingHistory.ts, lines 28-31
ClearHistory ==
    /\ tracker.mounted
    /\ storage' = ClearHistoryUtil(storage)
    /\ tracker' = [tracker EXCEPT !.history = <<>>]
    /\ evicted' = <<>>
    /\ moved' = <<>>
    /\ UNCHANGED <<clock, got, tabs, linkVars>>

\* the hook's refreshHistory: useReadingHistory.ts, lines 34-36
RefreshHistory ==
    /\ tracker.mounted
    /\ tracker' = [tracker EXCEPT !.history = GetHistory(storage, TRUE)]
    /\ UNCHANGED <<storage, clock, evicted, moved, got, tabs, linkVars>>

\* the reader leaves the note pages: the tracker and its hook state are gone
UnmountTracker ==
    /\ tracker.mounted
    /\ tracker' = Unmounted
    /\ UNCHANGED <<storage, clock, evicted, moved, got, tabs, linkVars>>

Next ==
    \/ EditDisk
    \/ StartBuild
    \/ RegisterNext
    \/ FinishBuild
    \/ StartTransform
    \/ VisitText
    \/ Descend
    \/ ReplaceContent

Spec == Init /\ [][Next]_vars

SpecRewrite == InitRewrite /\ [][Next]_vars

\* a corpus of titled files, with the tree that links every file of it
InitTitles ==
    \E d \in TitledCorpora : InitWith(d, SelfLinkTree(d)) /\ docs = <<>> /\ tabs = <<>>

SpecTitles == InitTitles /\ [][Next]_vars

\* the rewrites of several documents, their steps interleaved in any order
NextDocs ==
    \/ StartBuild
    \/ RegisterNext
    \/ FinishBuild
    \/ \E i \in DOMAIN docs : DocStart(i)
    \/ \E i \in DOMAIN docs : DocVisitText(i)
    \/ \E i \in DOMAIN docs : DocDescend(i)

SpecDocs == InitDocs /\ [][NextDocs]_vars

\* a browser with empty storage in which note pages are read
InitHistory == InitWith(<<>>, Root(<<>>)) /\ docs = <<>> /\ tabs = <<>>

NextHistory ==
    \/ MountTracker
    \/ ChangePage
    \/ ClearHistory
    \/ RefreshHistory
    \/ UnmountTracker

SpecHistory == InitHistory /\ [][NextHistory]_vars

\* a note is read while storage holds fewer than MaxStored entries
StoreVisit ==
    /\ Len(GetHistory(storage, TRUE)) < MaxStored
    /\ \E p \in HistoryPages, now \in TimesNow :
          /\ storage' = AddToHistoryUtil(storage, p.slug, p.title, now)
          /\ clock' = now
    /\ UNCHANGED <<tracker, evicted, moved, got, tabs, linkVars>>

\* another script of the origin, or the reader in the developer tools,
\* stores a text under STORAGE_KEY that is no JSON
ForeignWrite ==
    /\ storage' = SetItem(Unparseable)
    /\ UNCHANGED <<clock, tracker, evicted, moved, got, tabs, linkVars>>

\* the entry under STORAGE_KEY is removed
RemoveItem ==
    /\ storage.present
    /\ storage' = ClearHistoryUtil(storage)
    /\ UNCHANGED <<clock, tracker, evicted, moved, got, tabs, linkVars>>

\* getHistory is called, in a browser or during server-side rendering
CallGetHistory ==
    /\ \E hasWindow \in BOOLEAN :
          got' = [called |-> TRUE, hasWindow |-> hasWindow, seen |-> storage,
                  threw |-> GetHistoryCall(storage, hasWindow).threw,
                  value |-> GetHistoryCall(storage, hasWindow).value]
    /\ UNCHANGED <<storage, clock, tracker, evicted, moved, tabs, linkVars>>

NextStorage ==
    \/ StoreVisit
    \/ ForeignWrite
    \/ RemoveItem
    \/ CallGetHistory

\* a browser whose storage the application and others write, and calls of
\* getHistory
SpecStorage == InitHistory /\ [][NextStorage]_vars

\* a tab that is about to call addToHistory(slug, title)
NewTab(p) == [pc |-> "idle", slug |-> p.slug, title |-> p.title, history |-> <<>>]

\* two tabs of one browser, open on two different notes, over empty storage
InitTabs ==
    /\ InitWith(<<>>, Root(<<>>))
    /\ docs = <<>>
    /\ \E p, q \in HistoryPages :
          /\ p.slug # q.slug
          /\ tabs = <<NewTab(p), NewTab(q)>>

\* a note was read before either tab calls addToHistory
EarlierVisit ==
    /\ \A i \in DOMAIN tabs : tabs[i].pc = "idle"
    /\ StoreVisit

\* addToHistory in tab i, line 11: const history = getHistory()
TabRead(i) ==
    /\ tabs[i].pc = "idle"
    /\ tabs' = [tabs EXCEPT ![i].pc = "read",
                            ![i].history = GetHistory(storage, TRUE)]
    /\ UNCHANGED <<storage, clock, tracker, evicted, moved, got, linkVars>>

\* addToHistory in tab i, lines 14-22: filter, new entry first, slice, and
\* localStorage.setItem of the result
TabWrite(i) ==
    /\ tabs[i].pc = "read"
    /\ \E now \in TimesNow :
          /\ storage' = SetItem(JsonStringify(KeepNewest(WithNewItem(
                             HistoryItem(tabs[i].slug, tabs[i].title, now),
                             WithoutSlug(tabs[i].history, tabs[i].slug)))))
          /\ clock' = now
    /\ tabs' = [tabs EXCEPT ![i].pc = "done"]
    /\ UNCHANGED <<tracker, evicted, moved, got, linkVars>>

NextTabs ==
    \/ EarlierVisit
    \/ \E i \in DOMAIN tabs : TabRead(i)
    \/ \E i \in DOMAIN tabs : TabWrite(i)

\* the addToHistory calls of two tabs on the storage they share, their reads
\* and writes of storage interleaved in any order
SpecTabs == InitTabs /\ [][NextTabs]_vars

(***************************************************************************)
(* Notions of the specification, defined apart from the code above.        *)
(***************************************************************************)
IsSpace(c) == c = " "

\* s without its leading and trailing white space
RECURSIVE TrimLeft(_)
TrimLeft(s) == IF s # <<>> /\ IsSpace(Head(s)) THEN TrimLeft(Tail(s)) ELSE s

RECURSIVE TrimRight(_)
TrimRight(s) ==
    IF s # <<>> /\ IsSpace(s[Len(s)]) THEN TrimRight(SubSeq(s, 1, Len(s) - 1)) ELSE s

Trim(s) == TrimRight(TrimLeft(s))

\* the normalization of the specification: lower-case, trim
Normalize(s) == Trim(ToLowerCase(s))

\* offsets of the ] characters at or after offset p
ClosersFrom(text, p) == {q \in p..(Len(text) - 1) : text[q + 1] = "]"}

\* the first ] at or after offset p, -1 when there is none
FirstCloser(text, p) ==
    IF ClosersFrom(text, p) = {} THEN -1
    ELSE CHOOSE q \in ClosersFrom(text, p) : \A r \in ClosersFrom(text, p) : q <= r

\* a link token stands at offset p: [[, a non-empty span free of ], and ]]
TokenAt(text, p) ==
    /\ OccursAt(text, OpenBrackets, p)
    /\ FirstCloser(text, p + 2) >= p + 3
    /\ OccursAt(text, CloseBrackets, FirstCloser(text, p + 2))

\* the link tokens of a text, left to right and not overlapping
RECURSIVE TokensFrom(_, _)
TokensFrom(text, p) ==
    IF p + 5 > Len(text) THEN <<>>
    ELSE IF TokenAt(text, p)
         THEN <<[start |-> p, inner |-> Slice(text, p + 2, FirstCloser(text, p + 2)),
                 end |-> FirstCloser(text, p + 2) + 2]>>
              \o TokensFrom(text, FirstCloser(text, p + 2) + 2)
         ELSE TokensFrom(text, p + 1)

Tokens(text) == TokensFrom(text, 0)

\* the kinds of node the rewriter emits
IsLiteral(n) == n.type = "text" /\ n.data = NoData
IsMarker(n) == n.type = "text" /\ n.data = BrokenLinkData
IsHyperlink(n) == n.type = "link"
IsReplacement(n) == IsMarker(n) \/ IsHyperlink(n)

\* the visible text of a node
DisplayText(n) ==
    IF IsHyperlink(n) THEN Concat([i \in DOMAIN n.children |-> n.children[i].value])
    ELSE n.value

\* the replacement nodes of a node list, in order
Replacements(nodes) == SelectSeq(nodes, IsReplacement)

\* the last visitor call replaced its text node
Rewrote == last.called /\ last.replaced

(***************************************************************************)
(* Claims about the rewriter, checked under SpecRewrite.                   *)
(***************************************************************************)

\* C1: every token [[X]] whose normalized (lower-cased, trimmed) inner text
\* is a key of the alias index is replaced by a link node whose url is '/'
\* followed by the id the index gives that key and whose single text child
\* has the value X as written.
C1_HitEmitsLink ==
    Rewrote =>
        LET toks == Tokens(last.text)
            reps == Replacements(last.newNodes)
        IN  \A k \in DOMAIN toks :
                Normalize(toks[k].inner) \in DOMAIN titleToSlug =>
                    /\ k \in DOMAIN reps
                    /\ reps[k].type = "link"
                    /\ reps[k].url = <<"/">> \o titleToSlug[Normalize(toks[k].inner)]
                    /\ Len(reps[k].children) = 1
                    /\ reps[k].children[1].type = "text"
                    /\ reps[k].children[1].value = toks[k].inner

\* C2: every token [[X]] whose normalized inner text is no alias that the
\* index builder registered is replaced by a marked-text node that carries X
\* and the broken-link style tag, never by a hyperlink node.
C2_MissEmitsMarker ==
    Rewrote =>
        LET toks == Tokens(last.text)
            reps == Replacements(last.newNodes)
        IN  \A k \in DOMAIN toks :
                Normalize(toks[k].inner) \notin DOMAIN titleToSlug =>
                    /\ k \in DOMAIN reps
                    /\ ~IsHyperlink(reps[k])
                    /\ reps[k].type = "text"
                    /\ reps[k].value = toks[k].inner
                    /\ reps[k].data = BrokenLinkData

\* the outcome of resolving a token: a hit with its target, or a miss
Outcome(n) == [hit |-> IsHyperlink(n), target |-> n.url]

\* C3: resolution is insensitive to letter case and to surrounding white
\* space: two tokens whose inner texts are equal once lower-cased and trimmed
\* have the same outcome (the same target, or both a miss).
C3_CaseAndSpaceInsensitive ==
    Rewrote =>
        LET toks == Tokens(last.text)
            reps == Replacements(last.newNodes)
        IN  \A j, k \in DOMAIN toks :
                Normalize(toks[j].inner) = Normalize(toks[k].inner) =>
                    /\ j \in DOMAIN reps
                    /\ k \in DOMAIN reps
                    /\ Outcome(reps[j]) = Outcome(reps[k])

\* the nodes that stand in the tree where the last visited node stood
SplicedIn ==
    LET kids == NodeAt(tree, ParentPath(last.path)).children
        index == IndexOfPath(last.path)
    IN  SubSeq(kids, index + 1, index + Len(last.newNodes))

\* the text of a node list, every match rendered as its display text
RenderedRaw(nodes) == Concat([i \in DOMAIN nodes |-> DisplayText(nodes[i])])

\* the text of a node list, every match rendered as [[display text]]
RenderedBracketed(nodes) ==
    Concat([i \in DOMAIN nodes |->
                IF IsReplacement(nodes[i]) THEN Bracketed(DisplayText(nodes[i]))
                ELSE nodes[i].value])

\* C4 as stated: the textual content of the nodes that replace a text node,
\* every match rendered as its raw display text, concatenates to the original
\* string of the text node.
C4_RoundTripDisplayText ==
    Rewrote => RenderedRaw(SplicedIn) = last.text

\* C4 as amended: the textual content of the nodes that replace a text node,
\* every match rendered as its display text between the delimiters [[ and ]],
\* concatenates to the original string of the text node.
C4_RoundTripBracketed ==
    Rewrote =>
        /\ SplicedIn = last.newNodes
        /\ RenderedBracketed(SplicedIn) = last.text

C4_Witness ==
    /\ Rewrote
    /\ Len(Replacements(SplicedIn)) >= 2
    /\ \E i \in DOMAIN SplicedIn : IsLiteral(SplicedIn[i])
    /\ IsLiteral(SplicedIn[Len(SplicedIn)])

\* C5: the visitor leaves a text node without any [[...]] occurrence
\* untouched: the tree, and so the node, its value, its place and its
\* parent's child list, is the same after the call.
C5_NoTokenUntouched ==
    [][(/\ pc = "visit"
        /\ NodeAt(tree, cursor).type = "text"
        /\ Tokens(NodeAt(tree, cursor).value) = <<>>) => tree' = tree]_vars

C5_Witness ==
    /\ last.called
    /\ ~last.replaced
    /\ HasParent(last.path)
    /\ \E p \in 0..Len(last.text) : OccursAt(last.text, OpenBrackets, p)
    /\ \E p \in 0..Len(last.text) : OccursAt(last.text, CloseBrackets, p)
    /\ tree = orig
    /\ NodeAt(tree, last.path).position = 1

\* the literal segments and tokens of a text, in order, as the claim asks
RECURSIVE ExpectedFrom(_, _, _, _)
ExpectedFrom(text, toks, k, from) ==
    IF k > Len(toks)
    THEN IF from < Len(text)
         THEN <<[kind |-> "literal", str |-> Slice(text, from, Len(text))]>>
         ELSE <<>>
    ELSE (IF toks[k].start > from
          THEN <<[kind |-> "literal", str |-> Slice(text, from, toks[k].start)]>>
          ELSE <<>>)
         \o <<[kind |-> "token", str |-> toks[k].inner]>>
         \o ExpectedFrom(text, toks, k + 1, toks[k].end)

RECURSIVE Skeleton(_)
Skeleton(nodes) ==
    IF nodes = <<>> THEN <<>>
    ELSE <<[kind |-> IF IsReplacement(Head(nodes)) THEN "token" ELSE "literal",
            str |-> DisplayText(Head(nodes))]>> \o Skeleton(Tail(nodes))

\* C6: a text node with n >= 1 tokens is replaced by exactly n replacement
\* nodes, one per token in the original order, interleaved with the non-empty
\* literal segments before, between and after the tokens; no text node is
\* empty, no literal segment is dropped or reordered.
C6_OneNodePerToken ==
    Rewrote =>
        LET toks == Tokens(last.text)
        IN  /\ Len(toks) >= 1
            /\ Len(Replacements(SplicedIn)) = Len(toks)
            /\ Skeleton(SplicedIn) = ExpectedFrom(last.text, toks, 1, 0)
            /\ \A i \in DOMAIN SplicedIn :
                   /\ IsLiteral(SplicedIn[i]) \/ IsReplacement(SplicedIn[i])
                   /\ SplicedIn[i].type = "text" => SplicedIn[i].value # <<>>
            /\ Len(SplicedIn) = Len(last.newNodes)

C6_Witness ==
    /\ Rewrote
    /\ Len(Tokens(last.text)) = 2
    /\ Len(SplicedIn) = 3
    /\ IsReplacement(SplicedIn[1])
    /\ IsLiteral(SplicedIn[2])
    /\ IsReplacement(SplicedIn[3])

\* the offsets of the original text that the literal nodes of a replacement
\* sequence cover (a replacement node covers its display text and [[ ]])
RECURSIVE LiteralOffsetsFrom(_, _, _)
LiteralOffsetsFrom(nodes, i, off) ==
    IF i > Len(nodes) THEN {}
    ELSE LET n == nodes[i]
             w == IF IsReplacement(n) THEN Len(DisplayText(n)) + 4 ELSE Len(n.value)
         IN  (IF IsLiteral(n) THEN off..(off + w - 1) ELSE {})
             \cup LiteralOffsetsFrom(nodes, i + 1, off + w)

LiteralOffsets(nodes) == LiteralOffsetsFrom(nodes, 1, 0)

\* a token as the claim sees it: the span holds neither ] nor another [[
CleanTokenAt(text, p) ==
    /\ OccursAt(text, OpenBrackets, p)
    /\ \E e \in (p + 3)..Len(text) :
          /\ OccursAt(text, CloseBrackets, e)
          /\ \A k \in (p + 2)..(e - 1) : text[k + 1] # "]"
          /\ \A k \in (p + 2)..(e - 2) : ~OccursAt(text, OpenBrackets, k)

\* a [[ that opens no such token: unterminated (also when a well-formed token
\* follows it), empty, or with a single ] in its span
MalformedAt(text, p) == OccursAt(text, OpenBrackets, p) /\ ~CleanTokenAt(text, p)

\* C7 as stated: a malformed [[ (unterminated, also when a well-formed token
\* follows later in the node; empty [[]]; a single ] in the span) is never
\* turned into a link or marker node: its characters stay in a literal
\* segment.
C7_MalformedStaysLiteral ==
    Rewrote =>
        \A p \in 0..Len(last.text) :
            MalformedAt(last.text, p) => {p, p + 1} \subseteq LiteralOffsets(SplicedIn)

\* some earlier [[ is followed by no ] up to offset p
PrecededByOpen(text, p) ==
    \E q \in 0..(p - 1) :
        /\ OccursAt(text, OpenBrackets, q)
        /\ \A k \in q..(p - 1) : text[k + 1] # "]"

\* a [[ at p that the code leaves literal: no ] follows it, or the first ]
\* after it is a single one, or it is an empty [[]] with no open [[ before it
StaysLiteralAt(text, p) ==
    /\ OccursAt(text, OpenBrackets, p)
    /\ \/ FirstCloser(text, p + 2) = -1
       \/ ~OccursAt(text, CloseBrackets, FirstCloser(text, p + 2))
       \/ /\ OccursAt(text, CloseBrackets, p + 2)
          /\ ~PrecededByOpen(text, p)

\* C7 as amended: a text without a well-formed token is not rewritten, and a
\* [[ that no ] follows, whose first following ] is a single one, or that is
\* an empty [[]] not preceded by an open [[ stays in a literal segment.  A [[
\* followed, with no ] between, by a token [[X]] is not malformed: it opens a
\* token that ends at the ]] of X.
C7_MalformedStaysLiteralAmended ==
    /\ (last.called /\ Tokens(last.text) = <<>>) => ~last.replaced
    /\ Rewrote =>
          \A p \in 0..Len(last.text) :
              StaysLiteralAt(last.text, p) =>
                  {p, p + 1} \subseteq LiteralOffsets(SplicedIn)

C7_Witness ==
    /\ Rewrote
    /\ \E p \in 0..Len(last.text) :
          /\ StaysLiteralAt(last.text, p)
          /\ FirstCloser(last.text, p + 2) > p + 2
          /\ {p, p + 1} \subseteq LiteralOffsets(SplicedIn)

(***************************************************************************)
(* Claims about the alias index, checked under Spec.                       *)
(***************************************************************************)
\* s without a final '.md'
StripExtension(s) == IF EndsWith(s, DotMd) THEN SubSeq(s, 1, Len(s) - Len(DotMd)) ELSE s

\* the four aliases of a document, normalized as the specification asks:
\* title, id, path without extension, final path segment without extension
NormalizedAliases(file) ==
    {Normalize(a) : a \in {file.title, file.slug, StripExtension(file.path),
                           StripExtension(SplitPop(file.path))}}

\* the documents of a list that register the alias k
Registrants(fs, k) == {n \in DOMAIN fs : k \in NormalizedAliases(fs[n])}

LastOf(ns) == CHOOSE n \in ns : \A m \in ns : m <= n

\* C8: when two documents of a build register the same normalized alias, the
\* built index maps that alias to the id of the document that comes later in
\* the scan order, whatever the kind of the alias.
C8_LastWriteWins ==
    \A b \in DOMAIN builds :
        LET fs == builds[b].input
            map == builds[b].map
        IN  \A i, j \in DOMAIN fs :
                i < j =>
                    \A k \in NormalizedAliases(fs[i]) \cap NormalizedAliases(fs[j]) :
                        /\ k \in DOMAIN map
                        /\ map[k] = fs[LastOf(Registrants(fs, k))].slug

\* the keys that the files of a list contribute to an index
RegisteredKeys(fs) == UNION {DOMAIN RegisterFile(EmptyObject, fs[n]) : n \in DOMAIN fs}

\* C9: two builds from the same ordered document list yield the same map (same
\* keys, same value for every key), and a build keeps nothing of an earlier
\* build: every key of its map comes from a document of its own list.
C9_BuildDeterministic ==
    /\ \A a, b \in DOMAIN builds :
           builds[a].input = builds[b].input => builds[a].map = builds[b].map
    /\ \A b \in DOMAIN builds :
           DOMAIN builds[b].map \subseteq RegisteredKeys(builds[b].input)

C9_Witness ==
    /\ Len(builds) = 2
    /\ builds[1].input = builds[2].input
    /\ Len(builds[1].input) = 2
    /\ builds[1].map = builds[2].map
    /\ Cardinality(DOMAIN builds[2].map) >= 3

\* C10: after a build, looking up the normalized id of any document of the
\* list yields that document's id, so a link [[id]] resolves to the document.
C10_SelfResolution ==
    \A b \in DOMAIN builds :
        \A n \in DOMAIN builds[b].input :
            LET d == builds[b].input[n]
            IN  /\ GetProperty(builds[b].map, Normalize(d.slug)) = Defined(d.slug)
                /\ ReplacementNode(builds[b].map, d.slug) = NewLink(d.slug, d.slug)

\* C11: every key of a built alias index is normalized: it equals its own
\* lower-cased, whitespace-trimmed form, whichever of the four alias kinds
\* (title, id, path without extension, final path segment) registered it.
C11_KeysNormalized ==
    \A b \in DOMAIN builds :
        \A k \in DOMAIN builds[b].map : k = Normalize(k)

\* C12: document ids are unique: the files of the content directory, whose
\* relative paths are pairwise distinct, get pairwise distinct slugs, and the
\* slug-to-file map has one entry per file, each slug leading to its own file.
C12_SlugsUnique ==
    LET fs == GetAllMarkdownFiles(disk)
        slugToFile == GetSlugToFileMap(disk)
    IN  /\ \A i, j \in DOMAIN fs : i # j => fs[i].slug # fs[j].slug
        /\ Cardinality(DOMAIN slugToFile) = Len(fs)
        /\ \A i \in DOMAIN fs :
               GetProperty(slugToFile, fs[i].slug) = Defined(fs[i].path)

(***************************************************************************)
(* Claims about a whole rewrite of a tree.                                 *)
(***************************************************************************)
\* the paths of all nodes of a tree
RECURSIVE PathsOf(_)
PathsOf(node) ==
    {<<>>} \cup UNION {{<<i - 1>> \o p : p \in PathsOf(node.children[i])} :
                        i \in DOMAIN node.children}

\* the paths of the text nodes that have a parent
TextPaths(t) == {p \in PathsOf(t) : p # <<>> /\ NodeAt(t, p).type = "text"}

\* the inner texts of the tokens in the parented text nodes of a tree
InnerTexts(t) ==
    UNION {{Tokens(NodeAt(t, p).value)[k].inner :
                k \in DOMAIN Tokens(NodeAt(t, p).value)} : p \in TextPaths(t)}

\* the number of tokens in the parented text nodes of a tree
RECURSIVE TokenCount(_, _)
TokenCount(t, ps) ==
    IF ps = {} THEN 0
    ELSE LET p == CHOOSE q \in ps : TRUE
         IN  Len(Tokens(NodeAt(t, p).value)) + TokenCount(t, ps \ {p})

\* the rewrite of the tree has completed
RewriteDone == pc = "done"

\* C13: the rewrite has no fatal error path: the traversal always stands at
\* a node of the tree until it completes, and when no token's normalized
\* text is an alias of the index, every token of the document has become a
\* marked-text node and no hyperlink node was made.
C13_NoFatalError ==
    /\ pc = "visit" => cursor \in PathsOf(tree)
    /\ (/\ RewriteDone
        /\ \A x \in InnerTexts(orig) : Normalize(x) \notin DOMAIN titleToSlug)
           => /\ \A p \in PathsOf(tree) : ~IsHyperlink(NodeAt(tree, p))
              /\ Cardinality({p \in PathsOf(tree) : IsMarker(NodeAt(tree, p))})
                     = TokenCount(orig, TextPaths(orig))

\* the number of replacement nodes (links and markers) of a tree
ReplacementCount(t) ==
    Cardinality({p \in PathsOf(t) : IsReplacement(NodeAt(t, p))})

\* C14: after a full rewrite no text node that has a parent contains a
\* [[...]] occurrence, and every token of the original text nodes was
\* replaced by one node: no original text node is skipped because an earlier
\* sibling was spliced into several nodes during the traversal.
C14_AllTokensReplaced ==
    RewriteDone =>
        /\ \A p \in TextPaths(tree) : Tokens(NodeAt(tree, p).value) = <<>>
        /\ \A p \in TextPaths(tree) : ~RegexTest(NodeAt(tree, p).value).found
        /\ ReplacementCount(tree) = TokenCount(orig, TextPaths(orig))

C14_Witness ==
    /\ RewriteDone
    /\ \E p, q \in TextPaths(orig) :
          /\ ParentPath(p) = ParentPath(q)
          /\ IndexOfPath(p) < IndexOfPath(q)
          /\ Len(Tokens(NodeAt(orig, p).value)) >= 2
          /\ Tokens(NodeAt(orig, q).value) # <<>>
    /\ ReplacementCount(tree) >= 3
    /\ \A p \in TextPaths(tree) : Tokens(NodeAt(tree, p).value) = <<>>

\* a is a prefix of b
IsPrefix(a, b) == Len(a) <= Len(b) /\ SubSeq(b, 1, Len(a)) = a

\* the node at p is neither the node at c, nor below it, nor above it
Unrelated(p, c) == ~IsPrefix(c, p) /\ ~IsPrefix(p, c)

\* where the node at p stands once the child at c became n children
ShiftPath(p, c, n) ==
    IF /\ Len(p) >= Len(c)
       /\ SubSeq(p, 1, Len(c) - 1) = ParentPath(c)
       /\ p[Len(c)] > c[Len(c)]
    THEN [p EXCEPT ![Len(c)] = @ + n - 1]
    ELSE p

\* two nodes are equal in all but their children
SameButChildren(a, b) ==
    /\ a.type = b.type
    /\ a.value = b.value
    /\ a.url = b.url
    /\ a.data = b.data
    /\ a.position = b.position

\* the step is the visit of a text node that has a parent and holds a token
VisitOfToken ==
    /\ pc = "visit"
    /\ NodeAt(tree, cursor).type = "text"
    /\ cursor # <<>>
    /\ Tokens(NodeAt(tree, cursor).value) # <<>>

\* C15: the rewrite changes only text nodes that contain a link token.  A
\* step that is no visit of such a node leaves the tree as it is (non-text
\* nodes such as code with [[...]] in it, text nodes without a token); the
\* visit of such a node gives its parent exactly the old children with that
\* one child replaced by the n >= 1 replacement nodes, the siblings before
\* and after in their order, and leaves every other node of the tree as it
\* was.
C15_OnlyTokenTextChanges ==
    [][IF ~VisitOfToken THEN tree' = tree
       ELSE LET c == cursor
                n == Len(last'.newNodes)
                index == IndexOfPath(c)
                kids == NodeAt(tree, ParentPath(c)).children
                kidsAfter == NodeAt(tree', ParentPath(c)).children
            IN  /\ n >= 1
                /\ Len(kidsAfter) = Len(kids) - 1 + n
                /\ \A k \in 1..index : kidsAfter[k] = kids[k]
                /\ \A k \in 1..n : kidsAfter[index + k] = last'.newNodes[k]
                /\ \A k \in (index + 2)..Len(kids) : kidsAfter[k + n - 1] = kids[k]
                /\ \A p \in PathsOf(tree) :
                       Unrelated(p, c) =>
                           NodeAt(tree', ShiftPath(p, c, n)) = NodeAt(tree, p)
                /\ \A m \in 0..(Len(c) - 1) :
                       LET a == SubSeq(c, 1, m)
                       IN  /\ SameButChildren(NodeAt(tree', a), NodeAt(tree, a))
                           /\ m < Len(c) - 1 =>
                                  Len(NodeAt(tree', a).children)
                                      = Len(NodeAt(tree, a).children)]_vars

C15_Witness ==
    /\ Rewrote
    /\ IndexOfPath(last.path) >= 1
    /\ Len(last.newNodes) >= 3
    /\ LET kids == NodeAt(tree, ParentPath(last.path)).children
           index == IndexOfPath(last.path)
       IN  /\ kids[1].type = "inlineCode"
           /\ Tokens(kids[1].value) # <<>>
           /\ Len(kids) >= index + Len(last.newNodes) + 2
           /\ kids[index + Len(last.newNodes) + 1].type = "inlineCode"
           /\ kids[index + Len(last.newNodes) + 1].position = 1
           /\ kids[index + Len(last.newNodes) + 2].type = "text"

\* the index as the last finished build returned it
BuiltIndex == builds[Len(builds)].map

\* C16: the alias index is read-only during rewriting: while and after the
\* tree is rewritten the index has the keys and values that the build
\* returned, so every text node is resolved against the same index.
C16_IndexReadOnly ==
    pc \in {"visit", "done"} =>
        /\ builds # <<>>
        /\ DOMAIN titleToSlug = DOMAIN BuiltIndex
        /\ \A k \in DOMAIN titleToSlug : titleToSlug[k] = BuiltIndex[k]

C16_Witness ==
    /\ RewriteDone
    /\ titleToSlug = BuiltIndex
    /\ \E p \in PathsOf(tree) : IsMarker(NodeAt(tree, p))
    /\ \E p \in PathsOf(tree) : IsHyperlink(NodeAt(tree, p))
    /\ Cardinality({p \in TextPaths(orig) : Tokens(NodeAt(orig, p).value) # <<>>}) >= 2

\* the index over a whole document list, registered in list order
RECURSIVE IndexOver(_, _)
IndexOver(fs, n) ==
    IF n = 0 THEN EmptyObject ELSE RegisterFile(IndexOver(fs, n - 1), fs[n])

\* C18: strict sequencing: whenever a rewrite is under way or a token has
\* been resolved, the index build has run over the whole document list and
\* has returned; the index in use is the index over all documents, never a
\* partially built one.
C18_BuildBeforeRewrite ==
    (pc \in {"visit", "done", "page"} \/ last.called \/ page.rendered) =>
        /\ fileIdx > Len(files)
        /\ builds # <<>>
        /\ builds[Len(builds)].input = files
        /\ titleToSlug = IndexOver(files, Len(files))

C18_Witness ==
    /\ Rewrote
    /\ Len(files) = 2
    /\ titleToSlug = IndexOver(files, 2)
    /\ titleToSlug # IndexOver(files, 1)
    /\ \E k \in DOMAIN last.newNodes : IsHyperlink(last.newNodes[k])

(***************************************************************************)
(* Claims about several documents of one build, checked under SpecDocs.    *)
(***************************************************************************)
\* the stages (tree and position) of the rewrite of one document alone
RECURSIVE StagesFrom(_, _, _)
StagesFrom(map, t, path) ==
    LET node == NodeAt(t, path)
        after == IF node.type = "text" THEN VisitorResult(map, t, path) ELSE t
        next == IF node.type = "text" THEN Advance(after, path) ELSE AfterDescend(t, path)
    IN  {[tree |-> t, cursor |-> path]}
        \cup (IF next.done THEN {} ELSE StagesFrom(map, after, next.path))

\* C17: rewrites of documents that share one index are independent: in
\* every interleaving of their steps a document that was not started is as
\* it was parsed, a document under way is at a stage of its rewrite alone
\* and can take its next step at once, and a finished document has the tree
\* that rewriting it alone gives.
C17_DocumentsIndependent ==
    \A i \in DOMAIN docs :
        /\ docs[i].pc = "wait" => docs[i].tree = docs[i].orig
        /\ docs[i].pc = "visit" =>
               /\ [tree |-> docs[i].tree, cursor |-> docs[i].cursor]
                      \in StagesFrom(BuiltIndex, docs[i].orig, <<>>)
               /\ DocMayStep(i)
               /\ docs[i].cursor \in PathsOf(docs[i].tree)
        /\ docs[i].pc = "done" => docs[i].tree = Transform(BuiltIndex, docs[i].orig)

C17_Witness ==
    /\ Len(docs) = 2
    /\ docs[1].pc = "done"
    /\ docs[2].pc = "visit"
    /\ docs[2].tree # docs[2].orig
    /\ docs[1].tree # docs[1].orig
    /\ docs[1].orig = docs[2].orig
    /\ docs[1].tree = Transform(BuiltIndex, docs[1].orig)

(***************************************************************************)
(* Claims about the reading history, checked under SpecHistory.            *)
(***************************************************************************)
\* the history that the storage holds
Stored == GetHistory(storage, TRUE)

StoredAfter == GetHistory(storage', TRUE)

SlugsOf(history) == {history[k].slug : k \in DOMAIN history}

\* the step mounts the tracker of a note page, or gives the mounted tracker
\* another page
TrackerMounts ==
    /\ tracker'.mounted
    /\ \/ ~tracker.mounted
       \/ <<tracker'.slug, tracker'.title>> # <<tracker.slug, tracker.title>>

\* C19: reading a note is tracked: once the ReadingTracker of a note page
\* with (slug, title) has mounted, the stored reading history has an entry
\* for that slug with that title at position 0 (and nowhere else), stamped
\* with the time of the visit.
C19_ReadingTracked ==
    [][TrackerMounts =>
           /\ storage'.present
           /\ StoredAfter # <<>>
           /\ StoredAfter[1].slug = tracker'.slug
           /\ StoredAfter[1].title = tracker'.title
           /\ StoredAfter[1].visitedAt = clock'
           /\ \A k \in 2..Len(StoredAfter) : StoredAfter[k].slug # tracker'.slug
           /\ tracker'.history = StoredAfter]_vars

C19_Witness ==
    /\ tracker.mounted
    /\ Len(Stored) >= 3
    /\ Stored[1].slug = tracker.slug
    /\ Stored[1].title = <<"A", "2">>
    /\ Stored[1].visitedAt = 1
    /\ Stored[3].visitedAt = 0

\* C20: the reading history is a bounded list: from empty storage on, the
\* stored history never has more than 5 entries, it is in the order of the
\* visits, and when a slug that is not in a full history is added, the
\* entry dropped is the last one, the one visited least recently; the four
\* others stay, in their order, behind the new entry.
C20_BoundedHistory ==
    [][/\ Len(StoredAfter) <= 5
       /\ \A j, k \in DOMAIN StoredAfter :
              j < k => StoredAfter[j].visitedAt >= StoredAfter[k].visitedAt
       /\ (/\ Len(Stored) = 5
           /\ StoredAfter # <<>>
           /\ StoredAfter[1].slug \notin SlugsOf(Stored))
              => /\ Len(StoredAfter) = 5
                 /\ \A k \in 1..4 : StoredAfter[k + 1] = Stored[k]
                 /\ Stored[5].slug \notin SlugsOf(StoredAfter)
                 /\ \A k \in 1..4 : Stored[5].visitedAt <= Stored[k].visitedAt
                 /\ evicted' = <<Stored[5]>>]_vars

C20_Witness ==
    /\ Len(Stored) = 5
    /\ Len(evicted) = 1
    /\ evicted[1].slug = <<"a">>
    /\ evicted[1].visitedAt = 0
    /\ SlugsOf(Stored) = {<<"b">>, <<"c">>, <<"d">>, <<"e">>, <<"f">>}
    /\ Stored[1].slug = <<"f">>
    /\ Stored[1].visitedAt = 1
    /\ Stored[5].visitedAt = 0

\* the position of the entry with the slug in a history, 0 when it has none
PositionOf(history, slug) ==
    IF \E k \in DOMAIN history : history[k].slug = slug
    THEN CHOOSE k \in DOMAIN history : history[k].slug = slug
    ELSE 0

\* C21: addToHistory(slug, title) for a slug that the history has moves
\* that entry to position 0 with the new title and the time of the call,
\* keeps all other entries in their order, and leaves the length as it is.
C21_RevisitMovesToFront ==
    [][(TrackerMounts /\ tracker'.slug \in SlugsOf(Stored)) =>
           LET at == PositionOf(Stored, tracker'.slug)
           IN  /\ Len(StoredAfter) = Len(Stored)
               /\ StoredAfter[1]
                      = [slug |-> tracker'.slug, title |-> tracker'.title,
                         visitedAt |-> clock']
               /\ \A k \in 1..(at - 1) : StoredAfter[k + 1] = Stored[k]
               /\ \A k \in (at + 1)..Len(Stored) : StoredAfter[k] = Stored[k]
               /\ moved' = <<Stored[at]>>
               /\ evicted' = <<>>]_vars

C21_Witness ==
    /\ Len(Stored) = 4
    /\ Len(moved) = 1
    /\ moved[1] = [slug |-> <<"a">>, title |-> <<"A">>, visitedAt |-> 0]
    /\ Stored[1] = [slug |-> <<"a">>, title |-> <<"A", "2">>, visitedAt |-> 1]
    /\ Stored[2].visitedAt = 0
    /\ Stored[4].visitedAt = 0

\* the nodes that the rewrite puts for a text that is the only text node of
\* a document
AloneNodes(map, text) ==
    NodeAt(Transform(map, Root(<<Paragraph(<<ParsedText(text)>>)>>)), <<0>>).children

\* C22: what replaces a text node depends on its value and the index only,
\* not on the text nodes scanned before it: the scan of each text node
\* starts at offset 0, so a token at the very start of a node is replaced.
C22_ScanStartsAtZero ==
    Rewrote =>
        /\ SplicedIn = AloneNodes(titleToSlug, last.text)
        /\ TokenAt(last.text, 0) =>
               /\ IsReplacement(SplicedIn[1])
               /\ DisplayText(SplicedIn[1]) = Tokens(last.text)[1].inner

C22_Witness ==
    /\ Rewrote
    /\ TokenAt(last.text, 0)
    /\ IsReplacement(SplicedIn[1])
    /\ \E p \in PathsOf(tree) :
           /\ p # <<>>
           /\ p[1] < last.path[1]
           /\ IsReplacement(NodeAt(tree, p))

\* C23: getHistory never raises, returns the empty list when storage holds
\* no value, when the stored text is no JSON and when there is no window,
\* and never modifies storage.
C23_GetHistoryTotal ==
    [][got' # got =>
           /\ got'.called
           /\ ~got'.threw
           /\ storage' = storage
           /\ got'.seen = storage
           /\ (~storage.present \/ ~storage.text.parses \/ ~got'.hasWindow)
                  => got'.value = <<>>
           /\ (storage.present /\ storage.text.parses /\ got'.hasWindow)
                  => got'.value = storage.text.value]_vars

C23_Witness ==
    /\ got.called
    /\ got.hasWindow
    /\ got.seen = SetItem(Unparseable)
    /\ storage = got.seen
    /\ ~got.threw
    /\ got.value = <<>>

\* C24: from empty storage, after any sequence of addToHistory and
\* clearHistory calls the stored history has no two entries with the same
\* slug.
C24_SlugsDistinct ==
    \A i, j \in DOMAIN Stored : Stored[i].slug = Stored[j].slug => i = j

C24_Witness ==
    /\ Len(Stored) = MAX_HISTORY_SIZE
    /\ Len(moved) = 1
    /\ Stored[1].slug = moved[1].slug
    /\ Cardinality(SlugsOf(Stored)) = MAX_HISTORY_SIZE

\* the text nodes of a tree that the rewrite has made: literal segments,
\* marked texts and the text children of links
MadeTexts(t) ==
    {p \in PathsOf(t) : NodeAt(t, p).type = "text" /\ NodeAt(t, p).position = 0}

\* C25: the rewrite is idempotent: applied a second time to a rewritten
\* tree with the same index it changes nothing, because no literal segment,
\* marked text or text child of a link of the first pass holds a [[...]].
C25_Idempotent ==
    RewriteDone =>
        /\ Transform(titleToSlug, tree) = tree
        /\ \A p \in MadeTexts(tree) : Tokens(NodeAt(tree, p).value) = <<>>
        /\ \A p \in TextPaths(tree) : Tokens(NodeAt(tree, p).value) = <<>>

C25_Witness ==
    /\ RewriteDone
    /\ tree # orig
    /\ Transform(titleToSlug, tree) = tree
    /\ \E p, q, r \in MadeTexts(tree) :
           /\ IsMarker(NodeAt(tree, p))
           /\ IsLiteral(NodeAt(tree, q)) /\ NodeAt(tree, ParentPath(q)).type # "link"
           /\ IsHyperlink(NodeAt(tree, ParentPath(r)))

\* the index in use was built from the content directory as it is
DirectoryUnchanged == files = GetAllMarkdownFiles(disk)

\* the hyperlinks that the rewriter has put into the tree
EmittedLinks == {p \in PathsOf(tree) : IsHyperlink(NodeAt(tree, p))}

\* C26: resolved links never dangle: for an unchanged content directory
\* every value of the alias index is a key of the slug-to-file map, and
\* every hyperlink that the rewriter emits leads to a note page that finds
\* its file and does not render 'Note not found'.
C26_NoDanglingLink ==
    (pc \in {"visit", "done"} /\ DirectoryUnchanged) =>
        /\ \A k \in DOMAIN titleToSlug :
               titleToSlug[k] \in DOMAIN GetSlugToFileMap(disk)
        /\ \A p \in EmittedLinks : NotePage(disk, NodeAt(tree, p).url) = "note"

\* the decisions that the replacement nodes of a tree show, in the order of
\* the document
RECURSIVE TreeDecisions(_)
TreeDecisions(node) ==
    IF IsReplacement(node)
    THEN <<[display |-> DisplayText(node), hit |-> IsHyperlink(node),
            target |-> node.url]>>
    ELSE Concat([i \in DOMAIN node.children |-> TreeDecisions(node.children[i])])

\* a document of plain prose: paragraphs of text, no code
PlainProse(t) ==
    /\ t.type = "root"
    /\ \A p \in PathsOf(t) :
           NodeAt(t, p).type \in {"root", "paragraph", "emphasis", "text"}

\* C27: the two link-rewriting paths agree: the substitution of the note
\* page on the markdown source and the plugin on its tree find the same
\* link tokens in plain prose and decide hit or miss, target and display
\* text alike for each of them.
C27_PathsAgree ==
    (RewriteDone /\ PlainProse(orig)) =>
        PageDecisions(titleToSlug, MarkdownOf(orig)) = TreeDecisions(tree)

\* a document after document n of the list writes the key of n's title
TitleOverwritten(fs, n) ==
    \E m \in DOMAIN fs :
        /\ m > n
        /\ GetProperty(RegisterFile(EmptyObject, fs[m]), ToLowerCase(fs[n].title))
              # Undefined

\* C28: every document can be linked by its title: for every document d of
\* the corpus whose title alias no later document overwrites, a text node
\* [[d.title]], the title written as in the front matter, is rewritten into
\* a hyperlink to '/' + d.slug.
C28_LinkedByTitle ==
    (pc \in {"ready", "visit", "done"}) =>
        \A n \in DOMAIN files :
            ~TitleOverwritten(files, n) =>
                /\ AloneNodes(titleToSlug, Bracketed(files[n].title))
                      = <<NewLink(files[n].slug, files[n].title)>>
                /\ (RewriteDone /\ DirectoryUnchanged) =>
                       \E p \in EmittedLinks :
                           NodeAt(tree, p) = NewLink(files[n].slug, files[n].title)

\* both tabs have returned from addToHistory
TabsDone == tabs # <<>> /\ \A i \in DOMAIN tabs : tabs[i].pc = "done"

\* C29: no lost update across browser contexts: when two tabs call
\* addToHistory with distinct slugs on shared storage that holds fewer than
\* 4 entries, then however their reads and writes of storage interleave,
\* both slugs are in the stored history once both calls have finished.
C29_NoLostUpdate ==
    TabsDone => \A i \in DOMAIN tabs : tabs[i].slug \in SlugsOf(Stored)

====
